---- MODULE Spec2Model ----
(***************************************************************************)
(* Model of the paper ingestion / indexing / semantic search core of the   *)
(* Study Assistant backend (backend/app/services, backend/app/api).        *)
(*                                                                         *)
(* Texts are sequences of one-character strings over {"a", "b", " "}.      *)
(* Embedding vectors are pairs of integers; a query vector is a triple     *)
(* <<x, y, den>> standing for the vector (x/den, y/den), so that the       *)
(* component-wise mean of stored vectors is represented exactly.           *)
(* Similarity scores are cosine similarities scaled by 100 and rounded     *)
(* down in magnitude; NaN is the score pgvector yields for a zero vector.  *)
(***************************************************************************)
EXTENDS Integers, Sequences, FiniteSets, TLC

\* ------------------------------------------------------------------------
\* Bounds of the model
\* ------------------------------------------------------------------------
MaxPapers == 2
MaxLimit == 2
MaxRuns == 2
MaxUploads == 3
MaxLog == 1
MaxTextLen == 7
MaxChunkSize == 2
MaxRetryCount == 4
MaxIterations == 5

\* ------------------------------------------------------------------------
\* Value domains
\* ------------------------------------------------------------------------
Users == {"u1", "u2"}
None == "None"
Reqs == {"r1", "r2"}

\* extracted texts: "a b a", "b a", "b", " " (pages without text), ""
TextABA == <<"a", " ", "b", " ", "a">>
TextBA == <<"b", " ", "a">>
TextB == <<"b">>
TextBlank == <<" ">>
TextEmpty == <<>>

\* ------------------------------------------------------------------------
\* embedding_service.py
\* ------------------------------------------------------------------------
IsSpace(c) == c = " "

\* text[i] begins a word: a non-whitespace character at the start of the text
\* or after a whitespace character
WordStart(text, i) == ~IsSpace(text[i]) /\ (i = 1 \/ IsSpace(text[i - 1]))

\* the last character of the word that begins at text[i]
WordEnd(text, i) ==
    CHOOSE j \in i..Len(text) :
       /\ j = Len(text) \/ IsSpace(text[j + 1])
       /\ \A k \in i..j : ~IsSpace(text[k])

\* the words that begin in text[lo..hi], in order (the range is halved so that
\* the evaluation depth stays logarithmic in the length of the text)
RECURSIVE SplitRange(_, _, _)
SplitRange(text, lo, hi) ==
    IF lo > hi THEN <<>>
    ELSE IF lo = hi
         THEN IF WordStart(text, lo)
              THEN <<SubSeq(text, lo, WordEnd(text, lo))>>
              ELSE <<>>
         ELSE LET mid == (lo + hi) \div 2
              IN  SplitRange(text, lo, mid) \o SplitRange(text, mid + 1, hi)

\* str.split(): the maximal runs of non-whitespace characters
Split(text) == SplitRange(text, 1, Len(text))

\* str.strip() is empty
IsBlank(text) == \A i \in 1..Len(text) : IsSpace(text[i])

\* " ".join(words) (halved, as SplitRange)
RECURSIVE Join(_)
Join(words) ==
    IF words = <<>> THEN <<>>
    ELSE IF Len(words) = 1 THEN words[1]
    ELSE LET mid == Len(words) \div 2
         IN  Join(SubSeq(words, 1, mid)) \o <<" ">>
                \o Join(SubSeq(words, mid + 1, Len(words)))

Min(a, b) == IF a < b THEN a ELSE b

\* a slice index as Python reads it: a negative index counts from the end,
\* and every index is clamped to 0..n
PyIndex(i, n) == IF i < 0 THEN (IF i + n < 0 THEN 0 ELSE i + n) ELSE Min(i, n)

\* a slice that stops one word early
Slice_ShortByOne(s, start, end) == SubSeq(s, start + 1, Min(end - 1, Len(s)))

\* words[start:end] with 0-based start, exclusive end, clamped as Python does
Slice(s, start, end) ==
    SubSeq(s, PyIndex(start, Len(s)) + 1, PyIndex(end, Len(s)))

\* a loop whose next window starts where the last one ended
RECURSIVE ChunkLoop_NoOverlap(_, _, _, _, _)
ChunkLoop_NoOverlap(words, start, chunks, chunk_size, overlap) ==
    IF start < Len(words)
    THEN LET end == start + chunk_size
             chunk == Join(Slice(words, start, end))
             chunks2 == Append(chunks, chunk)
         IN  IF end >= Len(words)
             THEN chunks2
             ELSE ChunkLoop_NoOverlap(words, end, chunks2, chunk_size, overlap)
    ELSE chunks

RECURSIVE ChunkLoop(_, _, _, _, _)
ChunkLoop(words, start, chunks, chunk_size, overlap) ==
    IF start < Len(words)
    THEN LET end == start + chunk_size
             chunk == Join(Slice(words, start, end))
             chunks2 == Append(chunks, chunk)
         IN  IF end >= Len(words)
             THEN chunks2
             ELSE ChunkLoop(words, end - overlap, chunks2, chunk_size, overlap)
    ELSE chunks

chunk_text(text, chunk_size, overlap) ==
    IF text = <<>> THEN <<>>
    ELSE LET words == Split(text)
         IN  IF Len(words) <= chunk_size
             THEN <<text>>
             ELSE ChunkLoop(words, 0, <<>>, chunk_size, overlap)

CountChar(text, c) == Cardinality({i \in 1..Len(text) : text[i] = c})

\* model.encode: the sentence-transformer, a fixed function from text to a
\* non-zero vector (here: the letter counts, <<1, 1>> for a text w/o letters)
Encode(text) ==
    LET v == <<CountChar(text, "a"), CountChar(text, "b")>>
    IN  IF v = <<0, 0>> THEN <<1, 1>> ELSE v

generate_embedding(text) ==
    IF text = <<>> \/ IsBlank(text)
    THEN <<0, 0, 1>>
    ELSE LET v == Encode(text) IN <<v[1], v[2], 1>>

\* an embedder that returns one vector less than it was given texts
generate_embeddings_batch_DropsLast(texts) ==
    IF texts = <<>> THEN <<>>
    ELSE [i \in 1..(Len(texts) - 1) |->
            Encode(IF texts[i] = <<>> \/ IsBlank(texts[i]) THEN <<>> ELSE texts[i])]

generate_embeddings_batch(texts) ==
    IF texts = <<>> THEN <<>>
    ELSE [i \in 1..Len(texts) |->
            Encode(IF texts[i] = <<>> \/ IsBlank(texts[i]) THEN <<>> ELSE texts[i])]

\* ------------------------------------------------------------------------
\* pgvector: 1 - (embedding <=> query), scaled by 100
\* ------------------------------------------------------------------------
NaN == 1000

Isqrt(n) == CHOOSE k \in 0..100 : k * k <= n /\ n < (k + 1) * (k + 1)

\* e is a stored vector <<x, y>>, q a query vector <<x, y, den>> with den > 0
Similarity(e, q) ==
    LET dot == e[1] * q[1] + e[2] * q[2]
        ne == e[1] * e[1] + e[2] * e[2]
        nq == q[1] * q[1] + q[2] * q[2]
    IN  IF ne = 0 \/ nq = 0 THEN NaN
        ELSE LET mag == Isqrt((10000 * dot * dot) \div (ne * nq))
             IN  IF dot < 0 THEN 0 - mag ELSE mag

\* SQL and float comparison: every comparison with NaN is false
ScoreGE(a, b) == a # NaN /\ b # NaN /\ a >= b
ScoreGT(a, b) == a # NaN /\ b # NaN /\ a > b

\* np.mean(vectors, axis=0) as <<sum x, sum y, count>>
RECURSIVE SumVec(_)
SumVec(vs) ==
    IF vs = <<>> THEN <<0, 0>>
    ELSE LET t == SumVec(Tail(vs)) IN <<vs[1][1] + t[1], vs[1][2] + t[2]>>

Mean(vs) == LET s == SumVec(vs) IN <<s[1], s[2], Len(vs)>>

\* ------------------------------------------------------------------------
\* SELECT paper_id, similarity ... ORDER BY distance LIMIT n
\* cands is a set of records [out, score, row] (out: the selected columns of
\* the row); the result is the set
\* of row sequences the statement may return (the order of rows with equal
\* distance is not specified by SQL)
\* ------------------------------------------------------------------------
\* the smallest distance among the candidates; NaN sorts after every number
BestScore(cands) ==
    LET nums == {c \in cands : c.score # NaN}
    IN  IF nums = {} THEN NaN
        ELSE (CHOOSE c \in nums : \A d \in nums : c.score >= d.score).score

RECURSIVE OrderByLimit(_, _)
OrderByLimit(cands, n) ==
    IF n = 0 \/ cands = {} THEN {<<>>}
    ELSE LET best == {c \in cands : c.score = BestScore(cands)}
             outs == {c.out : c \in best}
         IN  UNION {LET c == CHOOSE c \in best : c.out = out
                    IN  {<<out>> \o t : t \in OrderByLimit(cands \ {c}, n - 1)}
                    : out \in outs}

\* ------------------------------------------------------------------------
\* search_service.py: in-memory post-processing of the fetched rows
\* ------------------------------------------------------------------------
HasKey(scores, pid) == \E i \in 1..Len(scores) : scores[i][1] = pid
KeyIndex(scores, pid) == CHOOSE i \in 1..Len(scores) : scores[i][1] = pid

\* a dedupe that keeps every fetched row
RECURSIVE Dedupe_KeepAll(_, _)
Dedupe_KeepAll(rows, paper_scores) ==
    IF rows = <<>> THEN paper_scores
    ELSE Dedupe_KeepAll(Tail(rows), Append(paper_scores, rows[1]))

\* paper_scores = {} ; for paper_id, score in rows: keep the highest score
\* (a dict: insertion ordered, an update keeps the key's position)
RECURSIVE Dedupe(_, _)
Dedupe(rows, paper_scores) ==
    IF rows = <<>> THEN paper_scores
    ELSE LET pid == rows[1][1]
             score == rows[1][2]
         IN  IF ~HasKey(paper_scores, pid)
             THEN Dedupe(Tail(rows), Append(paper_scores, <<pid, score>>))
             ELSE IF ScoreGT(score, paper_scores[KeyIndex(paper_scores, pid)][2])
                  THEN Dedupe(Tail(rows),
                              [paper_scores EXCEPT ![KeyIndex(paper_scores, pid)] = <<pid, score>>])
                  ELSE Dedupe(Tail(rows), paper_scores)

\* an insertion that puts x in front whatever its score
InsertDesc_Front(sorted, x) == <<x>> \o sorted

\* insert x into a sequence sorted by descending score, after its equals
RECURSIVE InsertDesc(_, _)
InsertDesc(sorted, x) ==
    IF sorted = <<>> THEN <<x>>
    ELSE IF ScoreGT(x[2], sorted[1][2])
         THEN <<x>> \o sorted
         ELSE <<sorted[1]>> \o InsertDesc(Tail(sorted), x)

\* sorted(items, key=score, reverse=True): stable
RECURSIVE SortedDesc(_)
SortedDesc(items) ==
    IF items = <<>> THEN <<>>
    ELSE InsertDesc(SortedDesc(SubSeq(items, 1, Len(items) - 1)), items[Len(items)])

\* a slice that is off by one
Take_OneMore(s, n) == SubSeq(s, 1, Min(n + 1, Len(s)))

\* sorted(...)[:limit]
Take(s, n) == SubSeq(s, 1, Min(n, Len(s)))

\* a ranking that returns one paper less than the page holds
RankPapers_ShortPage(rows, limit) == Take(SortedDesc(Dedupe(rows, <<>>)), limit - 1)

\* rows -> sorted_papers
RankPapers(rows, limit) == Take(SortedDesc(Dedupe(rows, <<>>)), limit)

\* ------------------------------------------------------------------------
\* State: the committed database tables and the requests in flight
\* ------------------------------------------------------------------------
VARIABLES
    users,             \* users: user id -> [daily_upload_count]
    papers,            \* papers: sequence (index = paper id) of [user_id, file_hash, arxiv_id, status]
    paper_contents,    \* paper_contents: sequence (index = paper id) of full_text
    processing_jobs,   \* processing_jobs: sequence of job records
    paper_embeddings,  \* paper_embeddings: set of rows
    search_queries,    \* search_queries: sequence of logged queries
    index_runs,        \* per committed index transaction: the chunk count it returned
    req                \* request slot -> the handler's position and locals

vars == <<users, papers, paper_contents, processing_jobs, paper_embeddings,
          search_queries, index_runs, req>>

Idle == [pc |-> "idle"]

PaperIds == 1..Len(papers)

\* select(Paper).where(Paper.id == paper_id) ... scalar_one_or_none()
PaperExists(pid) == pid \in PaperIds

\* the rows PaperEmbedding(...) index_paper adds for one paper in one transaction
EmbeddingRows(pid, chunks, embeddings, xid) ==
    {[paper_id |-> pid, chunk_index |-> i - 1, chunk_text |-> chunks[i],
      embedding |-> embeddings[i], xid |-> xid] :
        i \in 1..Min(Len(chunks), Len(embeddings))}

\* ------------------------------------------------------------------------
\* SearchService.search_papers
\* ------------------------------------------------------------------------
Queries == {<<"a">>, <<"b">>, <<"a", " ", "b">>, <<" ">>}
MinScores == {0, 30, 75}
Limits == 1..MaxLimit

\* the query without the owner predicate
SearchCandidates_AnyOwner(q, user_id, min_score) ==
    {[out |-> <<e.paper_id, Similarity(e.embedding, q)>>,
      score |-> Similarity(e.embedding, q), row |-> e] :
        e \in {e \in paper_embeddings : ScoreGE(Similarity(e.embedding, q), min_score)}}

\* FROM paper_embeddings pe [JOIN papers p] WHERE [p.user_id = :user_id AND]
\* similarity >= :min_score
SearchCandidates(q, user_id, min_score) ==
    {[out |-> <<e.paper_id, Similarity(e.embedding, q)>>,
      score |-> Similarity(e.embedding, q), row |-> e] :
        e \in {e \in paper_embeddings :
                 /\ user_id # None =>
                      (PaperExists(e.paper_id) /\ papers[e.paper_id].user_id = user_id)
                 /\ ScoreGE(Similarity(e.embedding, q), min_score)}}

\* the first statement, then dedupe, sort and truncate
SearchExecute(r) ==
    /\ req[r].pc = "idle"
    /\ Len(search_queries) < MaxLog
    /\ \E query \in Queries, user_id \in Users \cup {None}, limit \in Limits,
          min_score \in MinScores, log_query \in BOOLEAN :
          /\ LET query_embedding == generate_embedding(query)
                 cands == SearchCandidates(query_embedding, user_id, min_score)
             IN  \E rows \in OrderByLimit(cands, limit * 2) :
                    req' = [req EXCEPT ![r] =
                              [pc |-> "search_fetch", query |-> query, user_id |-> user_id,
                               limit |-> limit, min_score |-> min_score,
                               log_query |-> log_query, rows |-> rows,
                               sorted_papers |-> RankPapers(rows, limit)]]
    /\ UNCHANGED <<users, papers, paper_contents, processing_jobs, paper_embeddings,
                   search_queries, index_runs>>

\* for paper_id, score in sorted_papers: fetch the paper, keep it if found
FetchPapers(sorted_papers) ==
    SelectSeq(sorted_papers, LAMBDA x : PaperExists(x[1]))

\* results[0][k] if results else None: a sequence of no or one element
Optional(results, k) == [i \in 1..Min(1, Len(results)) |-> results[i][k]]

\* a search that logs every call, whatever log_query and user_id are
SearchFetch_AlwaysLogs(r) ==
    /\ req[r].pc = "search_fetch"
    /\ LET results == FetchPapers(req[r].sorted_papers)
       IN  /\ req' = [req EXCEPT ![r] =
                        [pc |-> "search_done", query |-> req[r].query,
                         user_id |-> req[r].user_id,
                         limit |-> req[r].limit, min_score |-> req[r].min_score,
                         rows |-> req[r].rows, results |-> results]]
           /\ search_queries' = Append(search_queries,
                    [user_id |-> req[r].user_id, query_text |-> req[r].query,
                     result_count |-> Len(results),
                     top_result_paper_id |-> Optional(results, 1),
                     top_result_score |-> Optional(results, 2)])
    /\ UNCHANGED <<users, papers, paper_contents, processing_jobs, paper_embeddings,
                   index_runs>>

\* fetch the papers, log the query, return the results
SearchFetch(r) ==
    /\ req[r].pc = "search_fetch"
    /\ LET results == FetchPapers(req[r].sorted_papers)
       IN  /\ req' = [req EXCEPT ![r] =
                        [pc |-> "search_done", query |-> req[r].query,
                         user_id |-> req[r].user_id,
                         limit |-> req[r].limit, min_score |-> req[r].min_score,
                         rows |-> req[r].rows, results |-> results]]
           /\ IF req[r].log_query /\ req[r].user_id # None
              THEN search_queries' = Append(search_queries,
                       [user_id |-> req[r].user_id, query_text |-> req[r].query,
                        result_count |-> Len(results),
                        top_result_paper_id |-> Optional(results, 1),
                        top_result_score |-> Optional(results, 2)])
              ELSE UNCHANGED search_queries
    /\ UNCHANGED <<users, papers, paper_contents, processing_jobs, paper_embeddings,
                   index_runs>>

\* the handler has returned; the slot is free for the next request
Return(r) ==
    /\ req[r].pc \in {"search_done", "similar_done"}
    /\ req' = [req EXCEPT ![r] = Idle]
    /\ UNCHANGED <<users, papers, paper_contents, processing_jobs, paper_embeddings,
                   search_queries, index_runs>>

\* ------------------------------------------------------------------------
\* SearchService.find_similar_papers
\* ------------------------------------------------------------------------
SetToSeq(S) == CHOOSE f \in [1..Cardinality(S) -> S] : \A x \in S : \E i \in DOMAIN f : f[i] = x

\* the load step without the early return on an empty source
FindSimilarLoad_NoEarlyReturn(r) ==
    /\ req[r].pc = "idle"
    /\ \E paper_id \in 1..MaxPapers, limit \in Limits, exclude_same_user \in BOOLEAN :
          LET source_embeddings == {e \in paper_embeddings : e.paper_id = paper_id}
          IN  req' = [req EXCEPT ![r] =
                        [pc |-> "similar_query", paper_id |-> paper_id, limit |-> limit,
                         exclude_same_user |-> exclude_same_user,
                         source_count |-> Cardinality(source_embeddings),
                         avg_embedding |->
                             Mean([i \in 1..Cardinality(source_embeddings) |->
                                     SetToSeq(source_embeddings)[i].embedding])]]
    /\ UNCHANGED <<users, papers, paper_contents, processing_jobs, paper_embeddings,
                   search_queries, index_runs>>

\* select(PaperEmbedding).where(paper_id == :paper_id); empty -> return []
FindSimilarLoad(r) ==
    /\ req[r].pc = "idle"
    /\ \E paper_id \in 1..MaxPapers, limit \in Limits, exclude_same_user \in BOOLEAN :
          LET source_embeddings == {e \in paper_embeddings : e.paper_id = paper_id}
          IN  IF source_embeddings = {}
              THEN req' = [req EXCEPT ![r] =
                             [pc |-> "similar_done", paper_id |-> paper_id, limit |-> limit,
                              exclude_same_user |-> exclude_same_user,
                              source_count |-> 0, nn_queries |-> 0, rows |-> <<>>,
                              results |-> <<>>]]
              ELSE req' = [req EXCEPT ![r] =
                             [pc |-> "similar_query", paper_id |-> paper_id, limit |-> limit,
                              exclude_same_user |-> exclude_same_user,
                              source_count |-> Cardinality(source_embeddings),
                              avg_embedding |->
                                  Mean([i \in 1..Cardinality(source_embeddings) |->
                                          SetToSeq(source_embeddings)[i].embedding])]]
    /\ UNCHANGED <<users, papers, paper_contents, processing_jobs, paper_embeddings,
                   search_queries, index_runs>>

\* the query without the pe.paper_id != :paper_id predicate
SimilarCandidates_WithSource(q, paper_id, exclude_same_user, user_id) ==
    {[out |-> <<e.paper_id, Similarity(e.embedding, q)>>,
      score |-> Similarity(e.embedding, q), row |-> e] :
        e \in {e \in paper_embeddings :
                 exclude_same_user =>
                    (PaperExists(e.paper_id) /\ papers[e.paper_id].user_id # user_id)}}

\* FROM paper_embeddings pe [JOIN papers p] WHERE pe.paper_id != :paper_id
\* [AND p.user_id != :user_id]
SimilarCandidates(q, paper_id, exclude_same_user, user_id) ==
    {[out |-> <<e.paper_id, Similarity(e.embedding, q)>>,
      score |-> Similarity(e.embedding, q), row |-> e] :
        e \in {e \in paper_embeddings :
                 /\ e.paper_id # paper_id
                 /\ exclude_same_user =>
                      (PaperExists(e.paper_id) /\ papers[e.paper_id].user_id # user_id)}}

\* select the source paper (missing -> return []), then the neighbour query
FindSimilarQuery(r) ==
    /\ req[r].pc = "similar_query"
    /\ IF ~PaperExists(req[r].paper_id)
       THEN req' = [req EXCEPT ![r] =
                      [pc |-> "similar_done", paper_id |-> req[r].paper_id,
                       limit |-> req[r].limit,
                       exclude_same_user |-> req[r].exclude_same_user,
                       source_count |-> req[r].source_count, nn_queries |-> 0,
                       rows |-> <<>>, results |-> <<>>]]
       ELSE LET cands == SimilarCandidates(req[r].avg_embedding, req[r].paper_id,
                                           req[r].exclude_same_user,
                                           papers[req[r].paper_id].user_id)
            IN  \E rows \in OrderByLimit(cands, req[r].limit * 2) :
                   req' = [req EXCEPT ![r] =
                             [pc |-> "similar_fetch", paper_id |-> req[r].paper_id,
                              limit |-> req[r].limit,
                              exclude_same_user |-> req[r].exclude_same_user,
                              source_count |-> req[r].source_count, nn_queries |-> 1,
                              rows |-> rows,
                              sorted_papers |-> RankPapers(rows, req[r].limit)]]
    /\ UNCHANGED <<users, papers, paper_contents, processing_jobs, paper_embeddings,
                   search_queries, index_runs>>

\* fetch the papers and return
FindSimilarFetch(r) ==
    /\ req[r].pc = "similar_fetch"
    /\ req' = [req EXCEPT ![r] =
                 [pc |-> "similar_done", paper_id |-> req[r].paper_id,
                  limit |-> req[r].limit,
                  exclude_same_user |-> req[r].exclude_same_user,
                  source_count |-> req[r].source_count, nn_queries |-> req[r].nn_queries,
                  rows |-> req[r].rows,
                  results |-> FetchPapers(req[r].sorted_papers)]]
    /\ UNCHANGED <<users, papers, paper_contents, processing_jobs, paper_embeddings,
                   search_queries, index_runs>>

\* ------------------------------------------------------------------------
\* pdf_processor.py: uploaded byte contents, their hash and extracted text
\* ------------------------------------------------------------------------
GoodFiles == {"fABA", "fBA", "fB", "fBlank", "fEmpty"}

\* extract_text: "\n\n".join(page texts)
FileText(f) ==
    CASE f = "fABA" -> TextABA
      [] f = "fBA" -> TextBA
      [] f = "fB" -> TextB
      [] f = "fBlank" -> TextBlank
      [] OTHER -> TextEmpty

\* compute_file_hash: hashlib.sha256(file_content).hexdigest()
Sha256(f) ==
    CASE f = "fABA" -> "3e1f"
      [] f = "fBA" -> "9a70"
      [] f = "fB" -> "c2d4"
      [] f = "fBlank" -> "77b1"
      [] f = "fEmpty" -> "e3b0"
      [] f = "fCorrupt" -> "5d41"
      [] OTHER -> "0000"

\* ------------------------------------------------------------------------
\* A database as left by committed uploads and committed index_paper runs
\* ------------------------------------------------------------------------
\* what one committed index_paper(paper, chunk_size, overlap) leaves behind
IndexedRows(pid, full_text, cp, xid) ==
    LET chunks == chunk_text(full_text, cp[1], cp[2])
    IN  EmbeddingRows(pid, chunks, generate_embeddings_batch(chunks), xid)

\* a paper's file and the index runs whose rows are present (two runs: the
\* rows left by overlapping index_paper requests)
CorpusForms ==
    {[file |-> "fABA", runs |-> <<>>],
     [file |-> "fABA", runs |-> << <<1, 0>> >>],
     [file |-> "fABA", runs |-> << <<2, 1>> >>],
     [file |-> "fABA", runs |-> << <<1, 0>>, <<2, 1>> >>],
     [file |-> "fBA", runs |-> << <<3, 1>> >>],
     [file |-> "fB", runs |-> << <<2, 0>> >>],
     [file |-> "fBlank", runs |-> << <<2, 0>> >>],
     [file |-> "fEmpty", runs |-> <<>>]}

CorpusXid(i, j) == 2 * (i - 1) + j

FreshUsers == [u \in Users |-> [daily_upload_count |-> 0]]

NewPaper(user_id, f, arxiv_id) ==
    [user_id |-> user_id, file_hash |-> Sha256(f), arxiv_id |-> arxiv_id,
     status |-> "extracting"]

NewJob(pid, user_id) ==
    [paper_id |-> pid, user_id |-> user_id, job_type |-> "full_processing",
     status |-> "pending", progress |-> 0, error_message |-> None,
     retry_count |-> 0, max_retries |-> 3]

InitCorpus(n, owner, form) ==
    /\ users = [u \in Users |->
                  [daily_upload_count |-> Cardinality({i \in 1..n : owner[i] = u})]]
    /\ papers = [i \in 1..n |-> NewPaper(owner[i], form[i].file, None)]
    /\ paper_contents = [i \in 1..n |-> FileText(form[i].file)]
    /\ processing_jobs = [i \in 1..n |-> NewJob(i, owner[i])]
    /\ paper_embeddings =
          UNION {IndexedRows(i, FileText(form[i].file), form[i].runs[j], CorpusXid(i, j)) :
                   <<i, j>> \in {x \in (1..n) \X (1..2) : x[2] <= Len(form[x[1]].runs)}}
    /\ index_runs =
          {[xid |-> CorpusXid(x[1], x[2]), paper_id |-> x[1],
            chunks |-> Len(chunk_text(FileText(form[x[1]].file),
                                      form[x[1]].runs[x[2]][1], form[x[1]].runs[x[2]][2]))] :
             x \in {x \in (1..n) \X (1..2) : x[2] <= Len(form[x[1]].runs)}}
    /\ search_queries = <<>>
    /\ req = [r \in Reqs |-> Idle]

InitSearch ==
    \E n \in 0..MaxPapers :
       \E owner \in [1..n -> Users], form \in [1..n -> CorpusForms] :
          InitCorpus(n, owner, form)

SearchReqs == {"r1"}

NextSearch ==
    \E r \in SearchReqs :
       \/ SearchExecute(r)
       \/ SearchFetch(r)
       \/ FindSimilarLoad(r)
       \/ FindSimilarQuery(r)
       \/ FindSimilarFetch(r)
       \/ Return(r)

SpecSearch == InitSearch /\ [][NextSearch]_vars

\* ------------------------------------------------------------------------
\* api/papers.py upload_paper, PaperService.create_paper_from_upload and
\* PaperService.create_paper_from_arxiv
\* ------------------------------------------------------------------------
UploadFiles == {"fABA", "fB", "fCorrupt", "fZero"}
ArxivIds == {"2401.1"}

\* limits = {"free": 5, ...}; every user of the model is on the free tier
FreeDailyLimit == 5

\* fitz.open fails on a byte stream that is not a PDF
Extractable(f) == f \in GoodFiles

\* the duplicate check without the owner predicate
DuplicatePapers_AnyOwner(user_id, file_hash) ==
    {i \in PaperIds : papers[i].file_hash = file_hash}

\* check_duplicate: select(Paper).where(user_id == :user_id, file_hash == :file_hash)
DuplicatePapers(user_id, file_hash) ==
    {i \in PaperIds : papers[i].user_id = user_id /\ papers[i].file_hash = file_hash}

\* select(Paper).where(user_id == :user_id, arxiv_id == :arxiv_id)
SameArxivPapers(user_id, arxiv_id) ==
    {i \in PaperIds : papers[i].user_id = user_id /\ papers[i].arxiv_id = arxiv_id}

UploadDone(r, code) ==
    [pc |-> "upload_done", status_code |-> code, user_id |-> req[r].user_id,
     file |-> req[r].file, source |-> req[r].source]

\* upload_paper up to process_pdf: the user row is loaded by get_current_user,
\* then the size check, the quota check and the extraction
UploadBegin(r) ==
    /\ req[r].pc = "idle"
    /\ \E user_id \in Users, f \in UploadFiles :
          LET count == users[user_id].daily_upload_count
              done(code) == [pc |-> "upload_done", status_code |-> code,
                             user_id |-> user_id, file |-> f, source |-> "upload"]
          IN  req' = [req EXCEPT ![r] =
                 IF f = "fZero" THEN done(400)
                 ELSE IF ~(count < FreeDailyLimit) THEN done(500)
                 ELSE IF ~Extractable(f) THEN done(409)
                 ELSE [pc |-> "upload_check", source |-> "upload", user_id |-> user_id,
                       file |-> f, arxiv_id |-> None, user_count |-> count]]
    /\ UNCHANGED <<users, papers, paper_contents, processing_jobs, paper_embeddings,
                   search_queries, index_runs>>

\* create_paper_from_arxiv up to process_pdf (a ValueError of process_pdf
\* reaches the caller: status 500)
ArxivBegin(r) ==
    /\ req[r].pc = "idle"
    /\ \E user_id \in Users, f \in UploadFiles \ {"fZero"}, arxiv_id \in ArxivIds :
          req' = [req EXCEPT ![r] =
                 IF ~Extractable(f)
                 THEN [pc |-> "upload_done", status_code |-> 500, user_id |-> user_id,
                       file |-> f, source |-> "arxiv"]
                 ELSE [pc |-> "upload_check", source |-> "arxiv", user_id |-> user_id,
                       file |-> f, arxiv_id |-> arxiv_id, user_count |-> 0]]
    /\ UNCHANGED <<users, papers, paper_contents, processing_jobs, paper_embeddings,
                   search_queries, index_runs>>

\* a duplicate check that runs after the upload has been counted
UploadCheck_CountsRejected(r) ==
    /\ req[r].pc = "upload_check"
    /\ LET dups == DuplicatePapers(req[r].user_id, Sha256(req[r].file))
       IN  IF dups # {}
           THEN /\ req' = [req EXCEPT ![r] = UploadDone(r, 409)]
                /\ users' = [users EXCEPT ![req[r].user_id].daily_upload_count = @ + 1]
           ELSE /\ Len(papers) + Cardinality({q \in Reqs : req[q].pc = "upload_commit"})
                      < MaxUploads
                /\ req' = [req EXCEPT ![r].pc = "upload_commit"]
                /\ UNCHANGED users
    /\ UNCHANGED <<papers, paper_contents, processing_jobs, paper_embeddings,
                   search_queries, index_runs>>

\* check_duplicate (and the arxiv_id check): one row raises ValueError, several
\* rows make scalar_one_or_none raise MultipleResultsFound
UploadCheck(r) ==
    /\ req[r].pc = "upload_check"
    /\ LET dups == DuplicatePapers(req[r].user_id, Sha256(req[r].file))
           same == IF req[r].source = "arxiv"
                   THEN SameArxivPapers(req[r].user_id, req[r].arxiv_id) ELSE {}
       IN  IF Cardinality(dups) = 1
           THEN req' = [req EXCEPT ![r] = UploadDone(r, 409)]
           ELSE IF Cardinality(dups) > 1
           THEN req' = [req EXCEPT ![r] = UploadDone(r, 500)]
           ELSE IF Cardinality(same) = 1
           THEN req' = [req EXCEPT ![r] = UploadDone(r, 409)]
           ELSE IF Cardinality(same) > 1
           THEN req' = [req EXCEPT ![r] = UploadDone(r, 500)]
           ELSE /\ Len(papers) + Cardinality({q \in Reqs : req[q].pc = "upload_commit"})
                      < MaxUploads
                /\ req' = [req EXCEPT ![r].pc = "upload_commit"]
    /\ UNCHANGED <<users, papers, paper_contents, processing_jobs, paper_embeddings,
                   search_queries, index_runs>>

\* add the paper, its content and its job, count the upload, commit
UploadCommit(r) ==
    /\ req[r].pc = "upload_commit"
    /\ LET user_id == req[r].user_id
           count == IF req[r].source = "upload" THEN req[r].user_count
                    ELSE users[user_id].daily_upload_count
       IN  /\ papers' = Append(papers, NewPaper(user_id, req[r].file, req[r].arxiv_id))
           /\ paper_contents' = Append(paper_contents, FileText(req[r].file))
           /\ processing_jobs' = Append(processing_jobs, NewJob(Len(papers) + 1, user_id))
           /\ users' = [users EXCEPT ![user_id].daily_upload_count = count + 1]
           /\ req' = [req EXCEPT ![r] = UploadDone(r, 201)]
    /\ UNCHANGED <<paper_embeddings, search_queries, index_runs>>

UploadReturn(r) ==
    /\ req[r].pc = "upload_done"
    /\ req' = [req EXCEPT ![r] = Idle]
    /\ UNCHANGED <<users, papers, paper_contents, processing_jobs, paper_embeddings,
                   search_queries, index_runs>>

InitEmpty ==
    /\ users = FreshUsers
    /\ papers = <<>>
    /\ paper_contents = <<>>
    /\ processing_jobs = <<>>
    /\ paper_embeddings = {}
    /\ index_runs = {}
    /\ search_queries = <<>>
    /\ req = [r \in Reqs |-> Idle]

NextUpload ==
    \E r \in Reqs :
       \/ UploadBegin(r)
       \/ ArxivBegin(r)
       \/ UploadCheck(r)
       \/ UploadCommit(r)
       \/ UploadReturn(r)

SpecUpload == InitEmpty /\ [][NextUpload]_vars

\* ------------------------------------------------------------------------
\* api/search.py index_paper and SearchService.index_paper
\*
\* Each request runs in its own session and transaction (database.py get_db):
\* its DELETE and INSERTs become visible to other sessions at its commit.
\* PostgreSQL READ COMMITTED: a statement reads the rows committed when it
\* starts; a DELETE waits for a row that another open transaction has
\* deleted, and skips the row once that transaction has committed.
\* ------------------------------------------------------------------------
IndexParams == {<<1, 0>>, <<2, 1>>, <<3, 1>>}

Indexing(r) == req[r].pc \in {"index_delete", "index_commit"}

PaperXids(pid) == {e.xid : e \in {e \in paper_embeddings : e.paper_id = pid}}

IndexDone(r, code, n, xid) ==
    [pc |-> "index_done", status_code |-> code, paper_id |-> req[r].paper_id,
     chunks_indexed |-> n, xid |-> xid, replaced |-> req[r].replaced]

\* the endpoint's ownership check, the content lookup, and the start of
\* DELETE FROM paper_embeddings WHERE paper_id = :paper_id
IndexBegin(r) ==
    /\ req[r].pc = "idle"
    /\ Cardinality(index_runs) + Cardinality({q \in Reqs : Indexing(q)}) < MaxRuns
    /\ \E user_id \in Users, paper_id \in 1..MaxPapers, cp \in IndexParams :
          req' = [req EXCEPT ![r] =
             IF ~(PaperExists(paper_id) /\ papers[paper_id].user_id = user_id)
             THEN [pc |-> "index_done", status_code |-> 404, paper_id |-> paper_id,
                   chunks_indexed |-> 0, xid |-> 0, replaced |-> 0]
             ELSE IF paper_contents[paper_id] = <<>>
             THEN [pc |-> "index_done", status_code |-> 200, paper_id |-> paper_id,
                   chunks_indexed |-> 0, xid |-> 0, replaced |-> 0]
             ELSE [pc |-> "index_delete", paper_id |-> paper_id,
                   chunk_size |-> cp[1], overlap |-> cp[2],
                   snapshot |-> PaperXids(paper_id), deleted |-> {}, replaced |-> 0]]
    /\ UNCHANGED <<users, papers, paper_contents, processing_jobs, paper_embeddings,
                   search_queries, index_runs>>

\* a DELETE that removes nothing
DeletedXids_None(r) == {}

\* the rows the DELETE removes: those of its snapshot that are still there
DeletedXids(r) == req[r].snapshot \cap PaperXids(req[r].paper_id)

\* a DELETE that is committed on its own, before the INSERTs
IndexDelete_Autocommit(r) ==
    /\ req[r].pc = "index_delete"
    /\ req' = [req EXCEPT ![r].pc = "index_commit",
                          ![r].deleted = DeletedXids(r),
                          ![r].replaced =
                              Cardinality({e \in paper_embeddings :
                                             /\ e.paper_id = req[r].paper_id
                                             /\ e.xid \in DeletedXids(r)})]
    /\ paper_embeddings' = {e \in paper_embeddings :
                              ~(e.paper_id = req[r].paper_id /\ e.xid \in DeletedXids(r))}
    /\ UNCHANGED <<users, papers, paper_contents, processing_jobs, search_queries,
                   index_runs>>

\* the DELETE completes once no other open transaction holds one of its rows
IndexDelete(r) ==
    /\ req[r].pc = "index_delete"
    /\ \A q \in Reqs \ {r} :
          (req[q].pc = "index_commit" /\ req[q].paper_id = req[r].paper_id) =>
             req[q].deleted \cap req[r].snapshot = {}
    /\ req' = [req EXCEPT ![r].pc = "index_commit",
                          ![r].deleted = DeletedXids(r),
                          ![r].replaced =
                              Cardinality({e \in paper_embeddings :
                                             /\ e.paper_id = req[r].paper_id
                                             /\ e.xid \in DeletedXids(r)})]
    /\ UNCHANGED <<users, papers, paper_contents, processing_jobs, paper_embeddings,
                   search_queries, index_runs>>

\* chunk, embed, add the rows and commit; an exception of the embedder rolls
\* the transaction back (get_db)
IndexCommit(r) ==
    /\ req[r].pc = "index_commit"
    /\ LET pid == req[r].paper_id
           chunks == chunk_text(paper_contents[pid], req[r].chunk_size, req[r].overlap)
           xid == Cardinality(index_runs) + 1
           kept == {e \in paper_embeddings :
                      ~(e.paper_id = pid /\ e.xid \in req[r].deleted)}
       IN  \/ /\ chunks = <<>>
              /\ paper_embeddings' = kept
              /\ req' = [req EXCEPT ![r] = IndexDone(r, 200, 0, 0)]
              /\ UNCHANGED index_runs
           \/ /\ chunks # <<>>
              /\ paper_embeddings' =
                    kept \cup EmbeddingRows(pid, chunks, generate_embeddings_batch(chunks), xid)
              /\ index_runs' = index_runs \cup
                    {[xid |-> xid, paper_id |-> pid, chunks |-> Len(chunks)]}
              /\ req' = [req EXCEPT ![r] = IndexDone(r, 200, Len(chunks), xid)]
           \/ /\ chunks # <<>>
              /\ req' = [req EXCEPT ![r] = IndexDone(r, 500, 0, 0)]
              /\ UNCHANGED <<paper_embeddings, index_runs>>
    /\ UNCHANGED <<users, papers, paper_contents, processing_jobs, search_queries>>

IndexReturn(r) ==
    /\ req[r].pc = "index_done"
    /\ req' = [req EXCEPT ![r] = Idle]
    /\ UNCHANGED <<users, papers, paper_contents, processing_jobs, paper_embeddings,
                   search_queries, index_runs>>

\* ------------------------------------------------------------------------
\* api/search.py search_paper_content and SearchService.search_paper_content
\* ------------------------------------------------------------------------
ContentQueries == {<<"a">>}

\* FROM paper_embeddings pe WHERE pe.paper_id = :paper_id
ContentCandidates(q, paper_id) ==
    {[out |-> <<e.chunk_text, Similarity(e.embedding, q), e.chunk_index>>,
      score |-> Similarity(e.embedding, q), row |-> e] :
        e \in {e \in paper_embeddings : e.paper_id = paper_id}}

\* one statement; seen: the rows of the paper the statement read;
\* indexed_before: an index_paper run for the paper had committed by then
ContentSearch(r) ==
    /\ req[r].pc = "idle"
    /\ \E user_id \in Users, paper_id \in 1..MaxPapers, query \in ContentQueries,
          limit \in Limits :
          IF ~(PaperExists(paper_id) /\ papers[paper_id].user_id = user_id)
          THEN req' = [req EXCEPT ![r] =
                         [pc |-> "content_done", status_code |-> 404,
                          paper_id |-> paper_id, limit |-> limit, seen |-> {},
                          indexed_before |-> FALSE, results |-> <<>>]]
          ELSE LET cands == ContentCandidates(generate_embedding(query), paper_id)
               IN  \E rows \in OrderByLimit(cands, limit) :
                      req' = [req EXCEPT ![r] =
                                [pc |-> "content_done", status_code |-> 200,
                                 paper_id |-> paper_id, limit |-> limit,
                                 seen |-> {c.row : c \in cands},
                                 indexed_before |->
                                     \E run \in index_runs : run.paper_id = paper_id,
                                 results |-> rows]]
    /\ UNCHANGED <<users, papers, paper_contents, processing_jobs, paper_embeddings,
                   search_queries, index_runs>>

ContentReturn(r) ==
    /\ req[r].pc = "content_done"
    /\ req' = [req EXCEPT ![r] = Idle]
    /\ UNCHANGED <<users, papers, paper_contents, processing_jobs, paper_embeddings,
                   search_queries, index_runs>>

\* papers that were uploaded and never indexed
IndexFiles == {"fABA", "fBlank", "fEmpty"}

InitIndex ==
    \E n \in 1..MaxPapers :
       \E owner \in [1..n -> Users], file \in [1..n -> IndexFiles] :
          InitCorpus(n, owner, [i \in 1..n |-> [file |-> file[i], runs |-> <<>>]])

NextIndex ==
    \E r \in Reqs :
       \/ IndexBegin(r)
       \/ IndexDelete(r)
       \/ IndexCommit(r)
       \/ IndexReturn(r)
       \/ ContentSearch(r)
       \/ ContentReturn(r)

\* index_paper requests and searches of concurrent sessions
SpecIndex == InitIndex /\ [][NextIndex]_vars

NextReindex ==
    \E r \in SearchReqs :
       \/ IndexBegin(r)
       \/ IndexDelete(r)
       \/ IndexCommit(r)
       \/ IndexReturn(r)

\* index_paper requests one after the other
SpecReindex == InitIndex /\ [][NextReindex]_vars

\* ------------------------------------------------------------------------
\* Properties of search_papers and find_similar_papers (SpecSearch)
\* ------------------------------------------------------------------------
ResultIds(results) == [i \in 1..Len(results) |-> results[i][1]]
NoDuplicates(s) == \A i, j \in 1..Len(s) : i # j => s[i] # s[j]
RowPapers(rows) == {rows[i][1] : i \in 1..Len(rows)}

\* C1: the list search_papers returns contains each paper id at most once
C1_SearchResultsDeduplicated ==
    \A r \in Reqs :
       req[r].pc = "search_done" => NoDuplicates(ResultIds(req[r].results))

\* a search whose fetched rows held two chunks of one paper has returned
C1_Witness ==
    \E r \in Reqs :
       /\ req[r].pc = "search_done"
       /\ req[r].results # <<>>
       /\ \E i, j \in 1..Len(req[r].rows) :
             i # j /\ req[r].rows[i][1] = req[r].rows[j][1]

C3_OwnerScoping ==
    \A r \in Reqs :
       /\ (req[r].pc = "search_done" /\ req[r].user_id # None) =>
             \A i \in 1..Len(req[r].results) :
                papers[req[r].results[i][1]].user_id = req[r].user_id
       /\ (req[r].pc = "similar_done" /\ req[r].exclude_same_user) =>
             \A i \in 1..Len(req[r].results) :
                papers[req[r].results[i][1]].user_id # papers[req[r].paper_id].user_id

\* an owner's search has returned papers while the index also holds a vector
\* of another owner's paper that passes min_score for every query
C3_Witness ==
    \E r \in Reqs :
       /\ req[r].pc = "search_done"
       /\ req[r].user_id # None
       /\ req[r].min_score = 0
       /\ req[r].results # <<>>
       /\ \E e \in paper_embeddings : papers[e.paper_id].user_id # req[r].user_id

\* C9: find_similar_papers never returns the source paper
C9_SourceExcluded ==
    \A r \in Reqs :
       req[r].pc = "similar_done" =>
          \A i \in 1..Len(req[r].results) : req[r].results[i][1] # req[r].paper_id

\* a source with three chunk vectors has been queried and other papers returned
C9_Witness ==
    \E r \in Reqs :
       /\ req[r].pc = "similar_done"
       /\ req[r].source_count = 3
       /\ ~req[r].exclude_same_user
       /\ req[r].results # <<>>

\* C10: for a source without stored vectors find_similar_papers returns the
\* empty list and runs no neighbour query
C10_EmptySourceReturnsEmpty ==
    \A r \in Reqs :
       (req[r].pc = "similar_done" /\ req[r].source_count = 0) =>
          (req[r].results = <<>> /\ req[r].nn_queries = 0)

\* the call has returned for a known paper that was never indexed while the
\* index holds vectors of other papers
C10_Witness ==
    \E r \in Reqs :
       /\ req[r].pc = "similar_done"
       /\ req[r].source_count = 0
       /\ PaperExists(req[r].paper_id)
       /\ paper_embeddings # {}

\* ------------------------------------------------------------------------
\* Properties of uploads (SpecUpload)
\* ------------------------------------------------------------------------
Tables == <<users, papers, paper_contents, processing_jobs, paper_embeddings>>

OwnerHas(user_id, f) ==
    {i \in PaperIds : papers[i].user_id = user_id /\ papers[i].file_hash = Sha256(f)}

\* C4: an upload whose duplicate check runs when its owner has one committed
\* paper with the same bytes is rejected with the duplicate error (409) and
\* changes no table; when only other owners have these bytes the upload goes
\* on to its commit, which adds one paper and one job
C4_DuplicateRejectedPerOwner ==
    [][\A r \in Reqs :
          /\ (req[r].pc = "upload_check" /\ req'[r] # req[r]
                /\ req[r].source = "upload") =>
                /\ Cardinality(OwnerHas(req[r].user_id, req[r].file)) = 1 =>
                      /\ req'[r].pc = "upload_done"
                      /\ req'[r].status_code = 409
                      /\ Tables' = Tables
                /\ OwnerHas(req[r].user_id, req[r].file) = {} =>
                      req'[r].pc = "upload_commit"
          /\ (req[r].pc = "upload_commit" /\ req'[r] # req[r]) =>
                /\ req'[r].status_code = 201
                /\ Len(papers') = Len(papers) + 1
                /\ papers'[Len(papers')].user_id = req[r].user_id
                /\ papers'[Len(papers')].file_hash = Sha256(req[r].file)
                /\ Len(processing_jobs') = Len(processing_jobs) + 1
                /\ processing_jobs'[Len(processing_jobs')].paper_id = Len(papers')]_vars

\* an owner's second upload of some bytes has been rejected while a later
\* upload of the same bytes by another owner was stored
C4_Witness ==
    \E r \in Reqs :
       /\ req[r].pc = "upload_done"
       /\ req[r].source = "upload"
       /\ req[r].status_code = 409
       /\ Extractable(req[r].file)
       /\ \E i, j \in PaperIds :
             /\ i < j
             /\ papers[i].file_hash = Sha256(req[r].file)
             /\ papers[j].file_hash = Sha256(req[r].file)
             /\ papers[i].user_id = req[r].user_id
             /\ papers[j].user_id # req[r].user_id

\* C5: no two papers of one owner have the same content fingerprint
C5_FingerprintUniquePerOwner ==
    \A i, j \in PaperIds :
       (i # j /\ papers[i].user_id = papers[j].user_id) =>
          papers[i].file_hash # papers[j].file_hash

\* ------------------------------------------------------------------------
\* Properties of index_paper (SpecReindex, SpecIndex)
\* ------------------------------------------------------------------------
PaperRows(pid) == {e \in paper_embeddings : e.paper_id = pid}

\* C6: after an index_paper run that follows the previous one, the paper has
\* exactly as many vectors as the run returned, all written by this run
C6_ReindexLeavesExactlyNewChunks ==
    \A r \in Reqs :
       (req[r].pc = "index_done" /\ req[r].status_code = 200) =>
          /\ Cardinality(PaperRows(req[r].paper_id)) = req[r].chunks_indexed
          /\ \A e \in PaperRows(req[r].paper_id) : e.xid = req[r].xid
          /\ {e.chunk_index : e \in PaperRows(req[r].paper_id)}
                = 0..(req[r].chunks_indexed - 1)

\* a run that yields fewer chunks than the run before it has committed
C6_Witness ==
    \E r \in Reqs :
       /\ req[r].pc = "index_done"
       /\ req[r].status_code = 200
       /\ req[r].chunks_indexed > 0
       /\ req[r].replaced > req[r].chunks_indexed

\* C7: the index holds at most one vector per (paper id, chunk index)
C7_OneVectorPerChunk ==
    \A e1, e2 \in paper_embeddings :
       (e1.paper_id = e2.paper_id /\ e1.chunk_index = e2.chunk_index) => e1 = e2

RunOf(xid) == CHOOSE run \in index_runs : run.xid = xid

\* C8: the vectors a search reads for a paper are whole chunk sets of
\* committed index_paper runs (indices 0..n-1 of each run it sees), and not
\* the empty set once a run for the paper has committed
C8_SearchSeesWholeChunkSets ==
    \A r \in Reqs :
       (req[r].pc = "content_done" /\ req[r].status_code = 200) =>
          /\ \A x \in {e.xid : e \in req[r].seen} :
                /\ \E run \in index_runs : run.xid = x
                /\ {e.chunk_index : e \in {e \in req[r].seen : e.xid = x}}
                      = 0..(RunOf(x).chunks - 1)
          /\ req[r].indexed_before => req[r].seen # {}

\* a search has read the old, complete chunk set of a paper while another
\* session's index_paper had deleted it and not yet committed
C8_Witness ==
    \E r, q \in Reqs :
       /\ req[r].pc = "content_done"
       /\ req[r].status_code = 200
       /\ Cardinality(req[r].seen) > 1
       /\ req[q].pc = "index_commit"
       /\ req[q].paper_id = req[r].paper_id
       /\ req[q].deleted # {}
       /\ {e.xid : e \in req[r].seen} = req[q].deleted

\* ------------------------------------------------------------------------
\* models/job.py: the jobs of a paper
\* ------------------------------------------------------------------------
\* ProcessingJob.is_finished
is_finished(job) == job.status \in {"completed", "failed", "cancelled"}

\* select(ProcessingJob).where(paper_id == :paper_id)
JobsOf(pid) == {j \in 1..Len(processing_jobs) : processing_jobs[j].paper_id = pid}

ActiveJobs(pid) == {j \in JobsOf(pid) : ~is_finished(processing_jobs[j])}

\* C11: a paper has at most one job that is not finished, and no index_paper
\* run is let through (nor are two let through together) for a paper that has
\* an unfinished job: such a run is rejected and the job stays as it is
C11_JobConflictOnActiveJob ==
    /\ \A pid \in PaperIds : Cardinality(ActiveJobs(pid)) <= 1
    /\ \A r \in Reqs :
          (Indexing(r) \/ (req[r].pc = "index_done" /\ req[r].status_code = 200)) =>
             ActiveJobs(req[r].paper_id) = {}
    /\ \A r, q \in Reqs :
          (r # q /\ Indexing(r) /\ Indexing(q)) => req[r].paper_id # req[q].paper_id

\* ------------------------------------------------------------------------
\* PaperService.update_paper_status
\* ------------------------------------------------------------------------
\* ProcessingStatus
ProcessingStatuses ==
    {"pending", "extracting", "embedding", "summarizing", "completed", "failed"}

\* the pipeline order of the statuses that are not "failed"
StatusRank(status) ==
    CASE status = "pending" -> 0
      [] status = "extracting" -> 1
      [] status = "embedding" -> 2
      [] status = "summarizing" -> 3
      [] OTHER -> 4

ErrorMessages == {None, "extraction failed"}

\* select the paper; if found set paper.status and commit. error_message is
\* assigned to paper.error_message, which is no column of papers (the column
\* is processing_error), so the message is not stored
UpdatePaperStatus(r) ==
    /\ req[r].pc = "idle"
    /\ \E paper_id \in 1..MaxPapers, status \in ProcessingStatuses,
          error_message \in ErrorMessages :
          IF PaperExists(paper_id)
          THEN /\ papers' = [papers EXCEPT ![paper_id].status = status]
               /\ req' = [req EXCEPT ![r] =
                            [pc |-> "status_done", paper_id |-> paper_id,
                             status |-> status, error_message |-> error_message,
                             found |-> TRUE, previous |-> papers[paper_id].status]]
          ELSE /\ UNCHANGED papers
               /\ req' = [req EXCEPT ![r] =
                            [pc |-> "status_done", paper_id |-> paper_id,
                             status |-> status, error_message |-> error_message,
                             found |-> FALSE, previous |-> None]]
    /\ UNCHANGED <<users, paper_contents, processing_jobs, paper_embeddings,
                   search_queries, index_runs>>

StatusReturn(r) ==
    /\ req[r].pc = "status_done"
    /\ req' = [req EXCEPT ![r] = Idle]
    /\ UNCHANGED <<users, papers, paper_contents, processing_jobs, paper_embeddings,
                   search_queries, index_runs>>

NextStatus ==
    \E r \in SearchReqs :
       \/ UpdatePaperStatus(r)
       \/ StatusReturn(r)

\* calls of update_paper_status on uploaded papers
SpecStatus == InitIndex /\ [][NextStatus]_vars

\* a step of the pipeline: forward in the order, or to "failed" from a status
\* that is neither "completed" nor "failed"
Forward(from, to) ==
    \/ from # "failed" /\ to # "failed" /\ StatusRank(from) < StatusRank(to)
    \/ to = "failed" /\ from \notin {"completed", "failed"}

\* C12: whenever the status of a paper changes, it moves forward in the order
\* pending, extracting, embedding, summarizing, completed, or to failed from
\* a status that is not terminal
C12_StatusMovesForward ==
    [][\A i \in PaperIds :
          papers'[i].status # papers[i].status =>
             Forward(papers[i].status, papers'[i].status)]_vars

\* C13: an index_paper request of the owner for a paper whose text yields no
\* chunk is not answered as a success (200) and leaves the paper "failed"
C13_ZeroChunksFail ==
    \A r \in Reqs :
       (/\ req[r].pc = "index_done"
        /\ req[r].status_code # 404
        /\ chunk_text(paper_contents[req[r].paper_id], 1, 0) = <<>>) =>
          /\ req[r].status_code # 200
          /\ papers[req[r].paper_id].status = "failed"

\* C14: once the ingestion of a corrupt byte stream has ended there is a job
\* for it that is failed and carries an error message, and a job that becomes
\* failed keeps the progress it had
C14_CorruptStreamJobFails ==
    [][/\ \A r \in Reqs :
             (req'[r].pc = "upload_done" /\ req'[r].file = "fCorrupt") =>
                \E j \in 1..Len(processing_jobs') :
                   /\ processing_jobs'[j].user_id = req'[r].user_id
                   /\ papers'[processing_jobs'[j].paper_id].file_hash
                         = Sha256(req'[r].file)
                   /\ processing_jobs'[j].status = "failed"
                   /\ processing_jobs'[j].error_message # None
       /\ \A j \in 1..Len(processing_jobs) :
             (processing_jobs'[j].status = "failed" /\ processing_jobs[j].status # "failed") =>
                processing_jobs'[j].progress = processing_jobs[j].progress]_vars

\* C15: every step of an upload request other than the commit that answers
\* 201, and so every step of a request that ends rejected (empty file, bytes
\* that fail extraction, duplicate), leaves users, papers, contents, jobs and
\* vectors as they were
C15_RejectedUploadChangesNothing ==
    [][\A r \in Reqs :
          (/\ req'[r] # req[r]
           /\ ~(req'[r].pc = "upload_done" /\ req'[r].status_code = 201)) =>
             Tables' = Tables]_vars

\* an owner with one stored paper has had a second upload of its bytes
\* rejected and an upload of bytes that are no PDF rejected, and still has one
\* paper, one job and a daily count of one
C15_Witness ==
    \E r, q \in Reqs :
       /\ req[r].pc = "upload_done" /\ req[r].source = "upload"
       /\ req[r].status_code = 409 /\ Extractable(req[r].file)
       /\ req[q].pc = "upload_done" /\ req[q].source = "upload"
       /\ req[q].status_code = 409 /\ req[q].file = "fCorrupt"
       /\ req[q].user_id = req[r].user_id
       /\ Len(papers) = 1 /\ Len(paper_contents) = 1 /\ Len(processing_jobs) = 1
       /\ papers[1].user_id = req[r].user_id
       /\ users[req[r].user_id].daily_upload_count = 1

\* ------------------------------------------------------------------------
\* api/papers.py delete_paper and PaperService.delete_paper
\* ------------------------------------------------------------------------
\* get_paper_by_id (none: return False, the endpoint answers 404); db.delete
\* marks the paper in the session (autoflush is off: no statement is sent);
\* the user row is selected; reading user.papers_uploaded, which User does not
\* have, raises AttributeError before the commit; get_db rolls the session
\* back and the request ends with status 500
DeletePaper(r) ==
    /\ req[r].pc = "idle"
    /\ \E user_id \in Users, paper_id \in 1..MaxPapers :
          req' = [req EXCEPT ![r] =
             IF ~(PaperExists(paper_id) /\ papers[paper_id].user_id = user_id)
             THEN [pc |-> "delete_done", status_code |-> 404, user_id |-> user_id,
                   paper_id |-> paper_id, marked |-> {}]
             ELSE [pc |-> "delete_done", status_code |-> 500, user_id |-> user_id,
                   paper_id |-> paper_id, marked |-> {paper_id}]]
    /\ UNCHANGED <<users, papers, paper_contents, processing_jobs, paper_embeddings,
                   search_queries, index_runs>>

DeleteReturn(r) ==
    /\ req[r].pc = "delete_done"
    /\ req' = [req EXCEPT ![r] = Idle]
    /\ UNCHANGED <<users, papers, paper_contents, processing_jobs, paper_embeddings,
                   search_queries, index_runs>>

NextDelete ==
    \E r \in Reqs :
       \/ DeletePaper(r)
       \/ DeleteReturn(r)
       \/ ContentSearch(r)
       \/ ContentReturn(r)

\* delete_paper requests and in-paper searches on an indexed corpus
SpecDelete == InitSearch /\ [][NextDelete]_vars

C17_DeleteCancelsActiveJob ==
    \A r \in Reqs :
       (req[r].pc = "delete_done" /\ req[r].status_code # 404) =>
          ActiveJobs(req[r].paper_id) = {}

\* ------------------------------------------------------------------------
\* embedding_service.py chunk_text, called on its own
\* ------------------------------------------------------------------------
Alphabet == {"a", "b", " "}

\* every text of at most MaxTextLen characters
ChunkTexts == UNION {[1..n -> Alphabet] : n \in 0..MaxTextLen}

\* <<chunk_size, overlap>>: chunk_text takes any pair of integers
ChunkConfigs == (1..MaxChunkSize) \X (0..MaxChunkSize)

Digits == <<"0", "1", "2", "3", "4", "5", "6", "7", "8", "9">>

\* the i-th word of the long text: i in four decimal digits
Word(i) ==
    <<Digits[((i \div 1000) % 10) + 1], Digits[((i \div 100) % 10) + 1],
      Digits[((i \div 10) % 10) + 1], Digits[(i % 10) + 1]>>

ScenarioWords == [i \in 1..1200 |-> Word(i)]

\* a text of 1,200 words, all different
ScenarioText == Join(ScenarioWords)

ChunkCalls ==
    {[text |-> t, chunk_size |-> c[1], overlap |-> c[2]] :
        t \in ChunkTexts, c \in ChunkConfigs}
    \cup {[text |-> ScenarioText, chunk_size |-> 500, overlap |-> 50]}

\* while start < len(words): ... start = end - overlap, entered when the text
\* has more than chunk_size words: with overlap >= chunk_size start never
\* grows, end never reaches len(words), and the loop does not end
Diverges(words, chunk_size, overlap) ==
    Len(words) > chunk_size /\ overlap >= chunk_size

\* one call of chunk_text: it returns the chunks, or it does not return
ChunkText(r) ==
    /\ req[r].pc = "chunk_call"
    /\ req' = [req EXCEPT ![r] =
          IF Diverges(Split(req[r].text), req[r].chunk_size, req[r].overlap)
          THEN [pc |-> "chunk_loop", text |-> req[r].text,
                chunk_size |-> req[r].chunk_size, overlap |-> req[r].overlap]
          ELSE [pc |-> "chunk_done", text |-> req[r].text,
                chunk_size |-> req[r].chunk_size, overlap |-> req[r].overlap,
                chunks |-> chunk_text(req[r].text, req[r].chunk_size, req[r].overlap)]]
    /\ UNCHANGED <<users, papers, paper_contents, processing_jobs, paper_embeddings,
                   search_queries, index_runs>>

InitChunk ==
    /\ users = FreshUsers
    /\ papers = <<>>
    /\ paper_contents = <<>>
    /\ processing_jobs = <<>>
    /\ paper_embeddings = {}
    /\ index_runs = {}
    /\ search_queries = <<>>
    /\ \E c \in ChunkCalls :
          req = [r \in Reqs |->
                   IF r \in SearchReqs
                   THEN [pc |-> "chunk_call", text |-> c.text,
                         chunk_size |-> c.chunk_size, overlap |-> c.overlap]
                   ELSE Idle]

NextChunk == \E r \in Reqs : ChunkText(r)

\* chunk_text applied to a text and a configuration
SpecChunk == InitChunk /\ [][NextChunk]_vars

\* ------------------------------------------------------------------------
\* Properties of chunk_text (SpecChunk)
\* ------------------------------------------------------------------------
WordCounts(chunks) == [k \in 1..Len(chunks) |-> Len(Split(chunks[k]))]

\* where the first word of a chunk stands in words (the words are different)
StartOf(chunk, words) == CHOOSE i \in 1..Len(words) : words[i] = Split(chunk)[1]

IncreasingStarts(chunks, words) ==
    \A k \in 1..(Len(chunks) - 1) :
       StartOf(chunks[k], words) < StartOf(chunks[k + 1], words)

\* chunk_text has returned for the text of 1,200 words, chunk_size 500, overlap 50
ScenarioDone(r) ==
    /\ req[r].pc = "chunk_done"
    /\ req[r].chunk_size = 500 /\ req[r].overlap = 50
    /\ req[r].text = ScenarioText

\* C18 as stated: chunk_text on 1,200 words with chunk_size 500 and overlap 50
\* returns three chunks of 500, 500 and 200 words, in the order of their
\* start positions
C18_ScenarioChunks_500_500_200 ==
    \A r \in Reqs :
       ScenarioDone(r) =>
          /\ WordCounts(req[r].chunks) = <<500, 500, 200>>
          /\ IncreasingStarts(req[r].chunks, ScenarioWords)

\* C18 amended: chunk_text on 1,200 words with chunk_size 500 and overlap 50
\* returns three chunks of 500, 500 and 300 words (words 1-500, 451-950 and
\* 901-1200), in the order of their start positions
C18_ScenarioChunks_500_500_300 ==
    \A r \in Reqs :
       ScenarioDone(r) =>
          /\ WordCounts(req[r].chunks) = <<500, 500, 300>>
          /\ IncreasingStarts(req[r].chunks, ScenarioWords)
          /\ Split(req[r].chunks[1]) = SubSeq(ScenarioWords, 1, 500)
          /\ Split(req[r].chunks[2]) = SubSeq(ScenarioWords, 451, 950)
          /\ Split(req[r].chunks[3]) = SubSeq(ScenarioWords, 901, 1200)

\* the call on the 1,200 words has returned with three chunks
C18_Witness ==
    \E r \in Reqs : ScenarioDone(r) /\ Len(req[r].chunks) = 3

DropFirst(s, n) == SubSeq(s, n + 1, Len(s))

\* the words of the chunks from the k-th on, every chunk but the first
\* without its first overlap words
RECURSIVE Reassemble(_, _, _)
Reassemble(chunks, k, overlap) ==
    IF k > Len(chunks) THEN <<>>
    ELSE (IF k = 1 THEN Split(chunks[k]) ELSE DropFirst(Split(chunks[k]), overlap))
            \o Reassemble(chunks, k + 1, overlap)

\* C19: for chunk_size > overlap >= 0 the words of the chunks, without the
\* first overlap words of every chunk after the first, are the words of the
\* text, in order
C19_ChunksReassembleToText ==
    \A r \in Reqs :
       (req[r].pc = "chunk_done" /\ req[r].overlap < req[r].chunk_size) =>
          Reassemble(req[r].chunks, 1, req[r].overlap) = Split(req[r].text)

\* a text of different words has been cut into three or more overlapping chunks
C19_Witness ==
    \E r \in Reqs :
       /\ req[r].pc = "chunk_done"
       /\ req[r].overlap >= 1 /\ req[r].overlap < req[r].chunk_size
       /\ Len(req[r].chunks) >= 3
       /\ \E i, j \in 1..Len(Split(req[r].text)) :
             Split(req[r].text)[i] # Split(req[r].text)[j]

\* C20: chunk_text is never applied with overlap >= chunk_size: such a
\* configuration is refused before a text is chunked
C20_BadOverlapRejected ==
    \A r \in Reqs :
       req[r].pc \in {"chunk_done", "chunk_loop"} =>
          req[r].overlap < req[r].chunk_size

\* ------------------------------------------------------------------------
\* Properties of generate_embedding and generate_embeddings_batch (SpecIndex)
\* ------------------------------------------------------------------------
\* [0.0] * 384 as a stored vector
ZeroVector == <<0, 0>>

\* the query vector generate_embedding returns, as a stored vector
AsStored(q) == <<q[1], q[2]>>

\* C21: every embedding has the dimension of the zero vector, generate_embedding
\* of an empty or whitespace-only text is the zero vector, and every stored
\* vector that generate_embeddings_batch produced for an empty or
\* whitespace-only chunk is the zero vector (the text never reached the model).
C21_BlankTextZeroVector ==
    /\ \A t \in {TextEmpty, TextBlank} : AsStored(generate_embedding(t)) = ZeroVector
    /\ \A e \in paper_embeddings :
          /\ Len(e.embedding) = Len(ZeroVector)
          /\ IsBlank(e.chunk_text) => e.embedding = ZeroVector

\* ------------------------------------------------------------------------
\* Properties of index_paper's stored rows (SpecIndex)
\* ------------------------------------------------------------------------
\* the step in which request r's index_paper commits and answers 200
IndexSucceeds(r) ==
    /\ req[r].pc = "index_commit"
    /\ req'[r].pc = "index_done"
    /\ req'[r].status_code = 200

SearchCompletes(r) == req[r].pc = "search_fetch" /\ req'[r].pc = "search_done"

\* C23: a Query Record is appended only by the step of search_papers that has
\* the final result list, exactly one if log_query is set and there is an
\* owner id and none otherwise; its result_count is the length of the returned
\* list and its top result and score are the first returned entry (empty if
\* there is none); a record once written is never changed or removed.
C23_QueryRecordWrittenOnceAfterSearch ==
    [][/\ Len(search_queries') >= Len(search_queries)
       /\ SubSeq(search_queries', 1, Len(search_queries)) = search_queries
       /\ Len(search_queries') > Len(search_queries) =>
             \E r \in Reqs : SearchCompletes(r)
       /\ \A r \in Reqs :
             SearchCompletes(r) =>
                IF req[r].log_query /\ req[r].user_id # None
                THEN /\ Len(search_queries') = Len(search_queries) + 1
                     /\ LET rec == search_queries'[Len(search_queries')]
                            results == req'[r].results
                        IN  /\ rec.user_id = req[r].user_id
                            /\ rec.query_text = req[r].query
                            /\ rec.result_count = Len(results)
                            /\ IF results = <<>>
                               THEN /\ rec.top_result_paper_id = <<>>
                                    /\ rec.top_result_score = <<>>
                               ELSE /\ rec.top_result_paper_id = <<results[1][1]>>
                                    /\ rec.top_result_score = <<results[1][2]>>
                ELSE search_queries' = search_queries]_vars

\* a logged search has returned a non-empty list and its record is in the log
C23_Witness ==
    /\ req["r1"].pc = "search_done"
    /\ req["r1"].results # <<>>
    /\ search_queries # <<>>
    /\ search_queries[Len(search_queries)].result_count = Len(req["r1"].results)
    /\ search_queries[Len(search_queries)].top_result_paper_id
          = <<req["r1"].results[1][1]>>

\* ------------------------------------------------------------------------
\* models/job.py: ProcessingJob.can_retry, applied to one job object per run
\* (SpecJob); the tables are those left by committed uploads
\* ------------------------------------------------------------------------
JobStatuses ==
    {"pending", "queued", "running", "completed", "failed", "cancelled", "retrying"}

\* the job objects can_retry is evaluated on
JobObjects ==
    [status : JobStatuses, retry_count : 0..MaxRetryCount,
     max_retries : 0..MaxRetryCount]

\* a property that looks at the counters only
can_retry_IgnoresStatus(job) == job.retry_count < job.max_retries

can_retry(job) == job.status = "failed" /\ job.retry_count < job.max_retries

CanRetry(r) ==
    /\ req[r].pc = "job_call"
    /\ req' = [req EXCEPT ![r] =
                 [pc |-> "job_done", job |-> req[r].job,
                  can_retry |-> can_retry(req[r].job)]]
    /\ UNCHANGED <<users, papers, paper_contents, processing_jobs, paper_embeddings,
                   search_queries, index_runs>>

InitJob ==
    \E n \in 1..MaxPapers :
       \E owner \in [1..n -> Users], file \in [1..n -> IndexFiles], job \in JobObjects :
          /\ users = [u \in Users |->
                        [daily_upload_count |-> Cardinality({i \in 1..n : owner[i] = u})]]
          /\ papers = [i \in 1..n |-> NewPaper(owner[i], file[i], None)]
          /\ paper_contents = [i \in 1..n |-> FileText(file[i])]
          /\ processing_jobs = [i \in 1..n |-> NewJob(i, owner[i])]
          /\ paper_embeddings = {}
          /\ index_runs = {}
          /\ search_queries = <<>>
          /\ req = [r \in Reqs |->
                      IF r \in SearchReqs THEN [pc |-> "job_call", job |-> job]
                      ELSE Idle]

NextJob == \E r \in SearchReqs : CanRetry(r)

SpecJob == InitJob /\ [][NextJob]_vars

\* C24: a job becomes "retrying" only from "failed" with retry_count below
\* max_retries; every job of the table has 0 <= retry_count <= max_retries;
\* can_retry is true exactly for a failed job with retry_count < max_retries,
\* so never for a pending, running, completed or cancelled job.
C24_RetryOnlyFromFailedWithinLimit ==
    [][/\ \A i \in 1..Len(processing_jobs') :
             /\ 0 <= processing_jobs'[i].retry_count
             /\ processing_jobs'[i].retry_count <= processing_jobs'[i].max_retries
       /\ \A i \in 1..Len(processing_jobs) :
             (processing_jobs'[i].status = "retrying"
                 /\ processing_jobs[i].status # "retrying") =>
                /\ processing_jobs[i].status = "failed"
                /\ processing_jobs[i].retry_count < processing_jobs[i].max_retries
       /\ \A r \in Reqs :
             (req[r].pc = "job_call" /\ req'[r].pc = "job_done") =>
                /\ req'[r].can_retry <=>
                      (req[r].job.status = "failed"
                         /\ req[r].job.retry_count < req[r].job.max_retries)
                /\ req[r].job.status \in {"pending", "running", "completed", "cancelled"}
                      => ~req'[r].can_retry]_vars

\* can_retry has answered TRUE for a failed job with retries left, next to a
\* table of jobs as the uploads created them
C24_Witness ==
    /\ req["r1"].pc = "job_done"
    /\ req["r1"].can_retry
    /\ req["r1"].job.status = "failed"
    /\ req["r1"].job.retry_count + 1 = req["r1"].job.max_retries
    /\ processing_jobs # <<>>

\* ------------------------------------------------------------------------
\* api/summaries.py create_summary and generate_flashcards, with
\* SummarizationService (SpecSummary). invoked: the request called the
\* generative model (groq_client.chat.completions.create); paper_status: the
\* status of the paper at that time
\* ------------------------------------------------------------------------
SummaryDone(code, paper_id, invoked) ==
    [pc |-> "summary_done", status_code |-> code, paper_id |-> paper_id,
     invoked |-> invoked,
     paper_status |-> IF PaperExists(paper_id) THEN papers[paper_id].status ELSE None]

\* the ownership check, then current_user.summaries_generated: the User model
\* has no such attribute, AttributeError is raised outside the try block and
\* the request ends with 500 before generate_summary is called
CreateSummary(r) ==
    /\ req[r].pc = "idle"
    /\ \E user_id \in Users, paper_id \in 1..MaxPapers :
          req' = [req EXCEPT ![r] =
             IF ~(PaperExists(paper_id) /\ papers[paper_id].user_id = user_id)
             THEN SummaryDone(404, paper_id, FALSE)
             ELSE SummaryDone(500, paper_id, FALSE)]
    /\ UNCHANGED <<users, papers, paper_contents, processing_jobs, paper_embeddings,
                   search_queries, index_runs>>

\* the ownership check, the content lookup, and the call of the model if a
\* client is configured (groq: settings.GROQ_API_KEY is set)
GenerateFlashcards(r) ==
    /\ req[r].pc = "idle"
    /\ \E user_id \in Users, paper_id \in 1..MaxPapers, groq \in BOOLEAN :
          req' = [req EXCEPT ![r] =
             IF ~(PaperExists(paper_id) /\ papers[paper_id].user_id = user_id)
             THEN SummaryDone(404, paper_id, FALSE)
             ELSE IF paper_contents[paper_id] = <<>>
             THEN SummaryDone(400, paper_id, FALSE)
             ELSE SummaryDone(200, paper_id, groq)]
    /\ UNCHANGED <<users, papers, paper_contents, processing_jobs, paper_embeddings,
                   search_queries, index_runs>>

SummaryReturn(r) ==
    /\ req[r].pc = "summary_done"
    /\ req' = [req EXCEPT ![r] = Idle]
    /\ UNCHANGED <<users, papers, paper_contents, processing_jobs, paper_embeddings,
                   search_queries, index_runs>>

NextSummary ==
    \E r \in SearchReqs :
       \/ CreateSummary(r)
       \/ GenerateFlashcards(r)
       \/ SummaryReturn(r)
       \/ UpdatePaperStatus(r)
       \/ StatusReturn(r)

\* summary and flashcard requests on uploaded papers, whose status is set by
\* update_paper_status
SpecSummary == InitIndex /\ [][NextSummary]_vars

\* C25: a request that called the generative model did so for a paper whose
\* status was "completed"; create_summary never calls it for a paper that is
\* pending, extracting, embedding or failed.
C25_GenerativeServiceOnlyWhenCompleted ==
    \A r \in Reqs :
       (req[r].pc = "summary_done" /\ req[r].invoked) =>
          req[r].paper_status = "completed"

\* ------------------------------------------------------------------------
\* Properties of the over-fetch window of search_papers (SpecSearch)
\* ------------------------------------------------------------------------
\* the papers with a chunk that passes the filters of request r's statement
QualifyingPapers(r) ==
    {c.row.paper_id :
       c \in SearchCandidates(generate_embedding(req[r].query), req[r].user_id,
                              req[r].min_score)}

\* request r's search has returned fewer papers than its limit although at
\* least limit papers qualify
Underfilled(r) ==
    /\ req[r].pc = "search_done"
    /\ Len(req[r].results) < req[r].limit
    /\ Cardinality(QualifyingPapers(r)) >= req[r].limit

\* C26: search_papers may return fewer than limit papers although limit papers
\* qualify, and when it does, the statement returned its full 2 * limit rows
\* and these belong to fewer than limit papers.
C26_UnderfillOnlyFromNarrowWindow ==
    \A r \in Reqs :
       Underfilled(r) =>
          /\ Len(req[r].rows) = 2 * req[r].limit
          /\ Cardinality(RowPapers(req[r].rows)) < req[r].limit
          /\ Len(req[r].results) = Cardinality(RowPapers(req[r].rows))

\* a search with limit 2 has returned one paper although two qualify
C26_Witness ==
    \E r \in Reqs :
       /\ Underfilled(r)
       /\ req[r].limit = 2
       /\ Len(req[r].results) = 1

\* ------------------------------------------------------------------------
\* Properties of the reported scores (SpecSearch)
\* ------------------------------------------------------------------------
\* the candidate rows of paper pid: its chunk vectors that pass the filters
PaperCands(cands, pid) == {c \in cands : c.row.paper_id = pid}

\* the highest similarity among all candidate rows of paper pid
TrueMax(cands, pid) == BestScore(PaperCands(cands, pid))

\* every returned paper carries its true maximum, and no candidate paper that
\* was left out has a higher one than a returned paper
RankedByTrueMax(cands, results) ==
    /\ \A i \in 1..Len(results) : results[i][2] = TrueMax(cands, results[i][1])
    /\ \A pid \in {c.row.paper_id : c \in cands} \ RowPapers(results) :
          \A i \in 1..Len(results) : ~ScoreGT(TrueMax(cands, pid), results[i][2])

\* the candidates of the statement request r has executed
CandsOf(r) ==
    IF req[r].pc = "search_done"
    THEN SearchCandidates(generate_embedding(req[r].query), req[r].user_id,
                          req[r].min_score)
    ELSE LET source == SetToSeq({e \in paper_embeddings : e.paper_id = req[r].paper_id})
         IN  SimilarCandidates(Mean([i \in 1..Len(source) |-> source[i].embedding]),
                               req[r].paper_id, req[r].exclude_same_user,
                               papers[req[r].paper_id].user_id)

\* C27: the score search_papers and find_similar_papers report for a paper is
\* the maximum over all its chunk vectors that pass the filters, and no paper
\* that was left out has a higher maximum than a returned one.
C27_ScoresAreTrueMaxima ==
    \A r \in Reqs :
       (req[r].pc = "search_done" \/ (req[r].pc = "similar_done" /\ req[r].nn_queries = 1))
          => RankedByTrueMax(CandsOf(r), req[r].results)

\* a search has returned a paper of which a candidate chunk lay outside the
\* fetched rows, and has left out another candidate paper
C27_Witness ==
    \E r \in Reqs :
       /\ req[r].pc = "search_done"
       /\ req[r].results # <<>>
       /\ \E i \in 1..Len(req[r].results) :
             Cardinality(PaperCands(CandsOf(r), req[r].results[i][1]))
                > Cardinality({k \in 1..Len(req[r].rows) :
                                 req[r].rows[k][1] = req[r].results[i][1]})
       /\ {c.row.paper_id : c \in CandsOf(r)} \ RowPapers(req[r].results) # {}

\* ------------------------------------------------------------------------
\* Properties of a failed index_paper (SpecReindex)
\* ------------------------------------------------------------------------
\* the step in which request r's index_paper fails after its DELETE
IndexFails(r) ==
    /\ req[r].pc = "index_commit"
    /\ req'[r].pc = "index_done"
    /\ req'[r].status_code = 500

\* C28: when index_paper fails after it deleted the paper's old vectors in its
\* transaction, the table holds for that paper exactly the vectors it held
\* when the call began (snapshot), and no row of the table has changed.
C28_FailedIndexRestoresVectors ==
    [][\A r \in Reqs :
          IndexFails(r) =>
             /\ {e.xid : e \in {e \in paper_embeddings' : e.paper_id = req[r].paper_id}}
                   = req[r].snapshot
             /\ paper_embeddings' = paper_embeddings
             /\ index_runs' = index_runs]_vars

\* an index_paper run that had deleted old vectors has failed, and the
\* paper's vectors of the earlier run are in the table
C28_Witness ==
    \E r \in Reqs :
       /\ req[r].pc = "index_done"
       /\ req[r].status_code = 500
       /\ req[r].replaced > 0
       /\ Cardinality({e \in paper_embeddings : e.paper_id = req[r].paper_id})
             = req[r].replaced

\* ------------------------------------------------------------------------
\* embedding_service.py chunk_text, one iteration of its while loop per step
\* (SpecChunkLoop); a run is followed for at most MaxIterations iterations
\* ------------------------------------------------------------------------
\* a loop whose window start stays where it is
NextStart_Same(start, chunk_size, overlap) == start

\* end = start + chunk_size ... start = end - overlap
NextStart(start, chunk_size, overlap) == (start + chunk_size) - overlap

\* if not text: return []; words = text.split(); if len(words) <= chunk_size:
\* return [text]; chunks = []; start = 0
ChunkEnter(r) ==
    /\ req[r].pc = "chunk_call"
    /\ LET words == Split(req[r].text)
       IN  req' = [req EXCEPT ![r] =
              IF req[r].text = <<>>
              THEN [pc |-> "chunk_done", text |-> req[r].text,
                    chunk_size |-> req[r].chunk_size, overlap |-> req[r].overlap,
                    chunks |-> <<>>]
              ELSE IF Len(words) <= req[r].chunk_size
              THEN [pc |-> "chunk_done", text |-> req[r].text,
                    chunk_size |-> req[r].chunk_size, overlap |-> req[r].overlap,
                    chunks |-> <<req[r].text>>]
              ELSE [pc |-> "chunk_iter", text |-> req[r].text,
                    chunk_size |-> req[r].chunk_size, overlap |-> req[r].overlap,
                    words |-> words, start |-> 0, chunks |-> <<>>]]
    /\ UNCHANGED <<users, papers, paper_contents, processing_jobs, paper_embeddings,
                   search_queries, index_runs>>

\* while start < len(words): one pass through the body
ChunkIter(r) ==
    /\ req[r].pc = "chunk_iter"
    /\ Len(req[r].chunks) < MaxIterations
    /\ LET words == req[r].words
           start == req[r].start
           end == start + req[r].chunk_size
           chunks == Append(req[r].chunks, Join(Slice(words, start, end)))
       IN  req' = [req EXCEPT ![r] =
              IF ~(start < Len(words))
              THEN [pc |-> "chunk_done", text |-> req[r].text,
                    chunk_size |-> req[r].chunk_size, overlap |-> req[r].overlap,
                    chunks |-> req[r].chunks]
              ELSE IF end >= Len(words)
              THEN [pc |-> "chunk_done", text |-> req[r].text,
                    chunk_size |-> req[r].chunk_size, overlap |-> req[r].overlap,
                    chunks |-> chunks]
              ELSE [pc |-> "chunk_iter", text |-> req[r].text,
                    chunk_size |-> req[r].chunk_size, overlap |-> req[r].overlap,
                    words |-> words,
                    start |-> NextStart(start, req[r].chunk_size, req[r].overlap),
                    chunks |-> chunks]]
    /\ UNCHANGED <<users, papers, paper_contents, processing_jobs, paper_embeddings,
                   search_queries, index_runs>>

NextChunkLoop ==
    \E r \in Reqs :
       \/ ChunkEnter(r)
       \/ ChunkIter(r)

\* chunk_text run step by step on a text and a configuration
SpecChunkLoop == InitChunk /\ [][NextChunkLoop]_vars

\* ------------------------------------------------------------------------
\* Properties of the loop of chunk_text (SpecChunkLoop)
\* ------------------------------------------------------------------------
ValidConfig(r) ==
    req[r].chunk_size >= 1 /\ 0 <= req[r].overlap /\ req[r].overlap < req[r].chunk_size

\* C29: with chunk_size >= 1 and 0 <= overlap < chunk_size every iteration
\* that does not end the loop moves the window start forward and keeps it
\* below the number of words, so the loop ends after at most len(words)
\* iterations and returns what chunk_text returns; with overlap >= chunk_size
\* no iteration moves the start forward and none ends the loop.
C29_LoopAdvancesIffOverlapBelowChunkSize ==
    [][\A r \in Reqs :
          (req[r].pc = "chunk_iter" /\ req'[r] # req[r]) =>
             IF ValidConfig(r)
             THEN /\ Len(req[r].chunks) <= req[r].start
                  /\ req[r].start < Len(req[r].words)
                  /\ req'[r].pc = "chunk_iter" =>
                        /\ req'[r].start > req[r].start
                        /\ req'[r].start < Len(req[r].words)
                  /\ req'[r].pc = "chunk_done" =>
                        req'[r].chunks =
                           chunk_text(req[r].text, req[r].chunk_size, req[r].overlap)
             ELSE /\ req'[r].pc = "chunk_iter"
                  /\ req'[r].start <= req[r].start
                  /\ req[r].start <= 0]_vars

\* a run with overlap < chunk_size has ended after three or more iterations
C29_Witness ==
    \E r \in Reqs :
       /\ req[r].pc = "chunk_done"
       /\ ValidConfig(r)
       /\ req[r].overlap > 0
       /\ Len(req[r].chunks) >= 3

\* a run with overlap >= chunk_size is still in its loop after MaxIterations
\* iterations
C29_WitnessDiverging ==
    \E r \in Reqs :
       /\ req[r].pc = "chunk_iter"
       /\ ~ValidConfig(r)
       /\ Len(req[r].chunks) = MaxIterations

\* ------------------------------------------------------------------------
\* Properties of the chunks chunk_text returns (SpecChunk)
\* ------------------------------------------------------------------------
\* the last n words of a chunk / the first n words of a chunk
LastWords(chunk, n) ==
    LET w == Split(chunk) IN SubSeq(w, Len(w) - n + 1, Len(w))

FirstWords(chunk, n) == SubSeq(Split(chunk), 1, n)

\* C30: every returned chunk holds between 1 and chunk_size words, every chunk
\* but the last holds exactly chunk_size words, and every chunk after the
\* first begins with the last overlap words of the chunk before it.
C30_ChunkSizesAndOverlap ==
    \A r \in Reqs :
       req[r].pc = "chunk_done" =>
          LET chunks == req[r].chunks
              counts == WordCounts(chunks)
          IN  /\ \A k \in 1..Len(chunks) :
                    counts[k] >= 1 /\ counts[k] <= req[r].chunk_size
              /\ \A k \in 1..(Len(chunks) - 1) : counts[k] = req[r].chunk_size
              /\ \A k \in 2..Len(chunks) :
                    /\ counts[k] >= req[r].overlap
                    /\ FirstWords(chunks[k], req[r].overlap)
                          = LastWords(chunks[k - 1], req[r].overlap)
====
